---- MODULE Spec2Model ----
(***************************************************************************)
(* A model of the "term" expression interpreter: the lexer                 *)
(* (src/interpreter/parser/lex.rs), the recursive-descent parser           *)
(* (src/interpreter/parser.rs), the tree-walking evaluator                 *)
(* (src/interpreter.rs) and the session loop of main (src/main.rs).        *)
(*                                                                         *)
(* Source text is a sequence of one-character strings.  i64 is modelled    *)
(* by the interval MinI64..MaxI64 with MinI64 = -MaxI64 - 1, so that the   *)
(* asymmetric two's-complement range and every overflow case exist at a    *)
(* width TLC can enumerate.  f64 is modelled by exact rationals num/den    *)
(* in lowest terms (rounding, infinities and NaN are not modelled; the     *)
(* code only ever tests a Decimal against 0.0).                            *)
(***************************************************************************)
EXTENDS Integers, Sequences, FiniteSets, TLC

VARIABLES
    variables,        \* State.variables: name -> ValueKind
    overflow_checks,  \* build profile: TRUE = arithmetic overflow panics (debug)
    pc,               \* "ready" | "done" | "crashed" (a panic ends the process)
    calls,            \* number of interpret calls made so far
    src,              \* the text handed to the last call
    tokens,           \* what lex returned for it
    tree,             \* what parse returned for it
    result,           \* outcome of the last call
    prev,             \* State.variables as it was before the last call
    assigned          \* names whose assignment was executed in the last call

vars ==
    <<variables, overflow_checks, pc, calls, src, tokens, tree, result, prev, assigned>>

(***************************************************************************)
(* Bounds                                                                  *)
(***************************************************************************)
\* the largest i64 of the scaled integer range
MaxI64 ==
    7
\* interpret calls per session
MaxCalls ==
    2
\* length of the texts the lexer is run on exhaustively
MaxSrcLen ==
    4
\* length of the token sequences the session is run on exhaustively
MaxTokens ==
    3
\* frames of visit_node the native stack holds
MaxCallDepth ==
    12

MinI64 ==
    -MaxI64 - 1

(***************************************************************************)
(* TokenKind and ValueKind.  Both enums are records of one shape:          *)
(* kind, and the payload in num/den (numbers, booleans) or str.            *)
(***************************************************************************)
RECURSIVE GCD(_, _)
GCD(a, b) ==
    IF b = 0 THEN a ELSE GCD(b, a % b)

Abs(n) ==
    IF n < 0 THEN -n ELSE n

Payload(kind, num, den, str) ==
    [kind |-> kind, num |-> num, den |-> den, str |-> str]

Rational(num, den) ==
    LET s == IF den < 0 THEN -1 ELSE 1
        g == GCD(Abs(num), Abs(den))
    IN  IF num = 0 THEN <<0, 1>> ELSE <<(s * num) \div g, (s * den) \div g>>

TokenKind(kind) ==
    Payload(kind, 0, 1, "")

TokInteger(n) ==
    Payload("Integer", n, 1, "")

TokDecimal(num, den) ==
    Payload("Decimal", Rational(num, den)[1], Rational(num, den)[2], "")

TokIdentifier(name) ==
    Payload("Identifier", 0, 1, name)

TokQuotedString(s) ==
    Payload("QuotedString", 0, 1, s)

TokBoolean(b) ==
    Payload("Boolean", IF b THEN 1 ELSE 0, 1, "")

Integer(n) ==
    Payload("Integer", n, 1, "")

Decimal(num, den) ==
    Payload("Decimal", Rational(num, den)[1], Rational(num, den)[2], "")

Str(s) ==
    Payload("Str", 0, 1, s)

Identifier(name) ==
    Payload("Identifier", 0, 1, name)

Boolean(b) ==
    Payload("Boolean", IF b THEN 1 ELSE 0, 1, "")

None ==
    Payload("None", 0, 1, "")

(***************************************************************************)
(* Characters                                                              *)
(***************************************************************************)
Digits ==
    {"0", "1", "2", "3", "4", "5", "6", "7", "8", "9"}

DigitValue ==
    ("0" :> 0) @@ ("1" :> 1) @@ ("2" :> 2) @@ ("3" :> 3) @@ ("4" :> 4) @@
    ("5" :> 5) @@ ("6" :> 6) @@ ("7" :> 7) @@ ("8" :> 8) @@ ("9" :> 9)

\* char::is_alphabetic, on the letters the inputs are written with
Alphabetic ==
    {"a", "b", "e", "f", "i", "l", "s", "L", "N", "U"}

\* char::is_whitespace
Whitespace ==
    {" ", "\n", "\t"}

Drop(s, n) ==
    SubSeq(s, n + 1, Len(s))

starts_with(s, p) ==
    Len(s) >= Len(p) /\ SubSeq(s, 1, Len(p)) = p

RECURSIVE Concat(_)
Concat(chars) ==
    IF chars = <<>> THEN "" ELSE Head(chars) \o Concat(Tail(chars))

(***************************************************************************)
(* Lexer (lex.rs).  Every operator that can panic returns a record with    *)
(* err # "" for the panic.                                                 *)
(***************************************************************************)
\* take_while with a stateless predicate: the number of bytes taken
RECURSIVE take_while(_, _)
take_while(data, pred) ==
    IF data # <<>> /\ Head(data) \in pred
    THEN 1 + take_while(Tail(data), pred)
    ELSE 0

skip_whitespace(data) ==
    take_while(data, Whitespace)

RECURSIVE skip_until(_, _)
skip_until(s, pattern) ==
    IF s # <<>> /\ ~starts_with(s, pattern)
    THEN skip_until(Tail(s), pattern)
    ELSE IF Len(s) < Len(pattern)
         THEN [err |-> "slice index out of range", rest |-> <<>>]
         ELSE [err |-> "", rest |-> Drop(s, Len(pattern))]

skip_comments(s) ==
    IF starts_with(s, <<"/", "/">>)
    THEN LET r == skip_until(s, <<"\n">>)
         IN  [err |-> r.err, n |-> Len(s) - Len(r.rest)]
    ELSE IF starts_with(s, <<"/", "*">>)
    THEN LET r == skip_until(s, <<"*", "/">>)
         IN  [err |-> r.err, n |-> Len(s) - Len(r.rest)]
    ELSE [err |-> "", n |-> 0]

RECURSIVE skip_from(_, _)
skip_from(s, remaining) ==
    LET ws == skip_whitespace(remaining)
        r1 == Drop(remaining, ws)
        cm == skip_comments(r1)
        r2 == Drop(r1, cm.n)
    IN  IF cm.err # "" THEN [err |-> cm.err, n |-> 0]
        ELSE IF ws + cm.n = 0 THEN [err |-> "", n |-> Len(s) - Len(remaining)]
        ELSE skip_from(s, r2)

skip(s) ==
    skip_from(s, s)

\* the closure of lex_number: digits, and the first '.' only
RECURSIVE number_run(_, _)
number_run(data, was_dot) ==
    IF data = <<>> THEN 0
    ELSE IF Head(data) \in Digits THEN 1 + number_run(Tail(data), was_dot)
    ELSE IF Head(data) = "." /\ ~was_dot THEN 1 + number_run(Tail(data), TRUE)
    ELSE 0

\* str::parse::<i64> of a run of digits; anything past MaxI64 is an error
RECURSIVE parse_i64(_, _)
parse_i64(digits, acc) ==
    IF digits = <<>> THEN acc
    ELSE IF acc > MaxI64 THEN acc
    ELSE parse_i64(Tail(digits), 10 * acc + DigitValue[Head(digits)])

RECURSIVE Pow10(_)
Pow10(k) ==
    IF k = 0 THEN 1 ELSE 10 * Pow10(k - 1)

RECURSIVE digits_value(_, _)
digits_value(digits, acc) ==
    IF digits = <<>> THEN acc
    ELSE digits_value(Tail(digits), 10 * acc + DigitValue[Head(digits)])

lex_number(data) ==
    LET n       == number_run(data, FALSE)
        text    == SubSeq(data, 1, n)
        was_dot == \E i \in 1..n : text[i] = "."
        dot     == CHOOSE i \in 1..n : text[i] = "."
        digits  == SelectSeq(text, LAMBDA c : c # ".")
    IN  IF n = 0 THEN [err |-> "Couldn't lex a number", tok |-> TokenKind("Dot"), len |-> 0]
        ELSE IF was_dot
        THEN [err |-> "", tok |-> TokDecimal(digits_value(digits, 0), Pow10(n - dot)), len |-> n]
        ELSE IF parse_i64(digits, 0) > MaxI64
        THEN [err |-> "Can not parse float number.", tok |-> TokenKind("Dot"), len |-> 0]
        ELSE [err |-> "", tok |-> TokInteger(parse_i64(digits, 0)), len |-> n]

\* the closure of lex_string: the opening quote, then everything up to the next quote
RECURSIVE string_run(_, _)
string_run(data, was_first) ==
    IF data = <<>> THEN 0
    ELSE IF Head(data) = "\"" /\ was_first THEN 0
    ELSE 1 + string_run(Tail(data), TRUE)

lex_string(data) ==
    LET n == string_run(data, FALSE)
    IN  IF n = 0 THEN [err |-> "Couldn't lex a string", tok |-> TokenKind("Dot"), len |-> 0]
        ELSE [err |-> "", tok |-> TokQuotedString(Concat(SubSeq(data, 2, n))), len |-> n + 1]

lex_ident(data) ==
    LET n == take_while(data, {"_"} \cup Alphabetic \cup Digits)
    IN  IF data = <<>> THEN [err |-> "Unexpected EOF", tok |-> TokenKind("Dot"), len |-> 0]
        ELSE IF Head(data) \in Digits
        THEN [err |-> "Identifiers can't start with a number", tok |-> TokenKind("Dot"), len |-> 0]
        ELSE IF n = 0
        THEN [err |-> "Couldn't lex an identifier", tok |-> TokenKind("Dot"), len |-> 0]
        ELSE [err |-> "", tok |-> TokIdentifier(Concat(SubSeq(data, 1, n))), len |-> n]

lex_equals(data) ==
    IF Len(data) < 2 THEN [err |-> "index out of bounds", tok |-> TokenKind("Dot"), len |-> 0]
    ELSE IF data[2] = "=" THEN [err |-> "", tok |-> TokenKind("IsEquals"), len |-> 2]
    ELSE [err |-> "", tok |-> TokenKind("Assign"), len |-> 1]

lex_not(data) ==
    IF Len(data) < 2 THEN [err |-> "index out of bounds", tok |-> TokenKind("Dot"), len |-> 0]
    ELSE IF data[2] = "=" THEN [err |-> "", tok |-> TokenKind("NotEquals"), len |-> 2]
    ELSE [err |-> "", tok |-> TokenKind("Not"), len |-> 1]

SingleChar ==
    ("." :> "Dot") @@ ("<" :> "Less") @@ (">" :> "Greater") @@ ("+" :> "Plus") @@
    ("-" :> "Minus") @@ ("*" :> "Asterisk") @@ ("/" :> "ForwardSlash") @@
    ("(" :> "Lparen") @@ (")" :> "Rparen") @@ ("\n" :> "NewLine")

lex_one(data) ==
    IF data = <<>> THEN [err |-> "Unexpected EOF", tok |-> TokenKind("Dot"), len |-> 0]
    ELSE LET next == Head(data)
         IN  IF next \in DOMAIN SingleChar
             THEN [err |-> "", tok |-> TokenKind(SingleChar[next]), len |-> 1]
             ELSE IF next = "=" THEN lex_equals(data)
             ELSE IF next = "!" THEN lex_not(data)
             ELSE IF next = "\"" THEN lex_string(data)
             ELSE IF next \in Digits THEN lex_number(data)
             ELSE IF next \in Alphabetic
             THEN LET ident == lex_ident(data)
                  IN  IF ident.err # "" THEN ident
                      ELSE IF ident.tok.str = "if"
                      THEN [err |-> "", tok |-> TokenKind("If"), len |-> 2]
                      ELSE IF ident.tok.str = "while"
                      THEN [err |-> "", tok |-> TokenKind("While"), len |-> 5]
                      ELSE IF ident.tok.str = "true"
                      THEN [err |-> "", tok |-> TokBoolean(TRUE), len |-> 4]
                      ELSE IF ident.tok.str = "false"
                      THEN [err |-> "", tok |-> TokBoolean(FALSE), len |-> 5]
                      ELSE ident
             ELSE [err |-> "Unknown character", tok |-> TokenKind("Dot"), len |-> 0]

\* Lexer::next_token and the loop of lex: skip, stop at the end, lex one, chomp
RECURSIVE lex_from(_, _)
lex_from(remaining, toks) ==
    LET sk   == skip(remaining)
        rest == Drop(remaining, sk.n)
        one  == lex_one(rest)
    IN  IF sk.err # "" THEN [err |-> sk.err, tokens |-> toks]
        ELSE IF rest = <<>> THEN [err |-> "", tokens |-> toks]
        ELSE IF one.err # "" THEN [err |-> one.err, tokens |-> toks]
        ELSE IF one.len > Len(rest) THEN [err |-> "slice index out of range", tokens |-> toks]
        ELSE lex_from(Drop(rest, one.len), Append(toks, one.tok))

lex(s) ==
    lex_from(s, <<>>)

(***************************************************************************)
(* Parser (parser.rs).  Positions are 0-based as in the source:            *)
(* tokens.get(pos) is tks[pos + 1] when pos < Len(tks).                    *)
(***************************************************************************)
NodeNew ==
    [entry |-> TokenKind("Lparen"), children |-> <<>>]

Node(entry, children) ==
    [entry |-> entry, children |-> children]

ParseOk(node, pos) ==
    [err |-> "", node |-> node, pos |-> pos]

ParseErr(msg) ==
    [err |-> msg, node |-> NodeNew, pos |-> 0]

RECURSIVE parse_expr(_, _)
RECURSIVE parse_summand(_, _)
RECURSIVE parse_term(_, _)

parse_expr(tks, pos) ==
    LET s == parse_summand(tks, pos)
    IN  IF s.err # "" THEN s
        ELSE IF s.pos < Len(tks) /\ tks[s.pos + 1].kind \in {"Plus", "Minus", "Assign"}
        THEN LET rhs == parse_expr(tks, s.pos + 1)
             IN  IF rhs.err # "" THEN rhs
                 ELSE ParseOk(Node(TokenKind(tks[s.pos + 1].kind), <<s.node, rhs.node>>), rhs.pos)
        ELSE ParseOk(s.node, s.pos)

parse_summand(tks, pos) ==
    LET t == parse_term(tks, pos)
    IN  IF t.err # "" THEN t
        ELSE IF t.pos < Len(tks) /\ tks[t.pos + 1].kind \in {"Asterisk", "ForwardSlash"}
        THEN LET rhs == parse_summand(tks, t.pos + 1)
             IN  IF rhs.err # "" THEN rhs
                 ELSE ParseOk(Node(TokenKind(tks[t.pos + 1].kind), <<t.node, rhs.node>>), rhs.pos)
        ELSE ParseOk(t.node, t.pos)

\* a plausible slip: the ')' is tested for but not consumed
parse_term_keeps_rparen(tks, pos) ==
    IF pos >= Len(tks) THEN ParseErr("Unexpected EOF, expected paren or number")
    ELSE LET t == tks[pos + 1]
         IN  IF t.kind \in {"Integer", "Decimal", "QuotedString", "Identifier"}
             THEN ParseOk(Node(t, <<>>), pos + 1)
             ELSE IF t.kind = "Lparen"
             THEN LET e == parse_expr(tks, pos + 1)
                  IN  IF e.err # "" THEN e
                      ELSE IF e.pos < Len(tks) /\ tks[e.pos + 1].kind = "Rparen"
                      THEN ParseOk(e.node, e.pos)
                      ELSE ParseErr("Expected ) but found")
             ELSE IF t.kind = "Plus"
             THEN LET e == parse_expr(tks, pos + 1)
                  IN  IF e.err # "" THEN e
                      ELSE ParseOk(Node(TokenKind("Plus"), <<Node(TokInteger(0), <<>>), e.node>>), e.pos)
             ELSE IF t.kind = "Minus"
             THEN LET e == parse_summand(tks, pos + 1)
                  IN  IF e.err # "" THEN e
                      ELSE ParseOk(Node(TokenKind("Minus"), <<Node(TokInteger(0), <<>>), e.node>>), e.pos)
             ELSE ParseErr("Unexpected token")

\* a plausible slip: unary '-' built as a node with the operand as its one child
parse_term_unary_child(tks, pos) ==
    IF pos >= Len(tks) THEN ParseErr("Unexpected EOF, expected paren or number")
    ELSE LET t == tks[pos + 1]
         IN  IF t.kind \in {"Integer", "Decimal", "QuotedString", "Identifier"}
             THEN ParseOk(Node(t, <<>>), pos + 1)
             ELSE IF t.kind = "Lparen"
             THEN LET e == parse_expr(tks, pos + 1)
                  IN  IF e.err # "" THEN e
                      ELSE IF e.pos < Len(tks) /\ tks[e.pos + 1].kind = "Rparen"
                      THEN ParseOk(e.node, e.pos + 1)
                      ELSE ParseErr("Expected ) but found")
             ELSE IF t.kind = "Plus"
             THEN LET e == parse_expr(tks, pos + 1)
                  IN  IF e.err # "" THEN e
                      ELSE ParseOk(Node(TokenKind("Plus"), <<Node(TokInteger(0), <<>>), e.node>>), e.pos)
             ELSE IF t.kind = "Minus"
             THEN LET e == parse_summand(tks, pos + 1)
                  IN  IF e.err # "" THEN e
                      ELSE ParseOk(Node(TokenKind("Minus"), <<e.node>>), e.pos)
             ELSE ParseErr("Unexpected token")

parse_term(tks, pos) ==
    IF pos >= Len(tks) THEN ParseErr("Unexpected EOF, expected paren or number")
    ELSE LET t == tks[pos + 1]
         IN  IF t.kind \in {"Integer", "Decimal", "QuotedString", "Identifier"}
             THEN ParseOk(Node(t, <<>>), pos + 1)
             ELSE IF t.kind = "Lparen"
             THEN LET e == parse_expr(tks, pos + 1)
                  IN  IF e.err # "" THEN e
                      ELSE IF e.pos < Len(tks) /\ tks[e.pos + 1].kind = "Rparen"
                      THEN ParseOk(e.node, e.pos + 1)
                      ELSE ParseErr("Expected ) but found")
             ELSE IF t.kind = "Plus"
             THEN LET e == parse_expr(tks, pos + 1)
                  IN  IF e.err # "" THEN e
                      ELSE ParseOk(Node(TokenKind("Plus"), <<Node(TokInteger(0), <<>>), e.node>>), e.pos)
             ELSE IF t.kind = "Minus"
             THEN LET e == parse_summand(tks, pos + 1)
                  IN  IF e.err # "" THEN e
                      ELSE ParseOk(Node(TokenKind("Minus"), <<Node(TokInteger(0), <<>>), e.node>>), e.pos)
             ELSE ParseErr("Unexpected token")

\* a plausible slip: the tree is returned without looking for the end of the tokens
parse_tokens_no_eof(tks) ==
    parse_expr(tks, 0)

\* parse after lex has succeeded: one complete expression, then the end
parse_tokens(tks) ==
    LET r == parse_expr(tks, 0)
    IN  IF r.err # "" THEN r
        ELSE IF r.pos >= Len(tks) THEN ParseOk(r.node, r.pos)
        ELSE ParseErr("Expected EOF")

parse(s) ==
    LET l == lex(s)
    IN  IF l.err # "" THEN ParseErr(l.err) ELSE parse_tokens(l.tokens)

(***************************************************************************)
(* Evaluator (interpreter.rs).  A State is [variables, assigned]:          *)
(* variables is State.variables, assigned the set of names inserted by     *)
(* do_assign_node since the call began.  A result is [err, val, state];    *)
(* err # "" is a panic and state is what the State held when it was        *)
(* raised.                                                                 *)
(***************************************************************************)
EvalOk(val, state) ==
    [err |-> "", val |-> val, state |-> state]

EvalPanic(msg, state) ==
    [err |-> msg, val |-> None, state |-> state]

InI64(n) ==
    MinI64 <= n /\ n <= MaxI64

\* two's-complement wrap-around into MinI64..MaxI64
Wrap(n) ==
    ((n - MinI64) % (2 * MaxI64 + 2)) + MinI64

\* i64 +, -, *: panics on overflow when overflow checks are compiled in, wraps otherwise
Arith(n, what, state) ==
    IF InI64(n) THEN EvalOk(Integer(n), state)
    ELSE IF overflow_checks THEN EvalPanic(what, state)
    ELSE EvalOk(Integer(Wrap(n)), state)

\* i64 % and /, truncating toward zero
Rem(a, b) ==
    IF a < 0 THEN -(Abs(a) % Abs(b)) ELSE Abs(a) % Abs(b)

Quot(a, b) ==
    IF (a < 0) = (b < 0) THEN Abs(a) \div Abs(b) ELSE -(Abs(a) \div Abs(b))

\* do_self, Integer with Integer
do_self_integers(ln, rn, op, state) ==
    CASE op.kind = "Plus" -> Arith(ln + rn, "attempt to add with overflow", state)
      [] op.kind = "Minus" -> Arith(ln - rn, "attempt to subtract with overflow", state)
      [] op.kind = "Asterisk" -> Arith(ln * rn, "attempt to multiply with overflow", state)
      [] op.kind = "ForwardSlash" ->
           IF rn # 0
           THEN IF ln = MinI64 /\ rn = -1
                THEN EvalPanic("attempt to calculate the remainder with overflow", state)
                ELSE IF Rem(ln, rn) # 0
                THEN EvalOk(Decimal(ln, rn), state)
                ELSE EvalOk(Integer(Quot(ln, rn)), state)
           ELSE EvalPanic("Can't divide by zero", state)
      [] op.kind = "IsEquals" -> EvalOk(Boolean(ln = rn), state)
      [] OTHER -> EvalPanic("Unexpected operation", state)

\* a plausible slip: the Decimal branches divide without testing the divisor,
\* and f64 division by 0.0 yields an infinity (written num/0) instead of failing
do_self_decimals_unchecked(ln, ld, rn, rd, op, state) ==
    CASE op.kind = "Plus" -> EvalOk(Decimal(ln * rd + rn * ld, ld * rd), state)
      [] op.kind = "Minus" -> EvalOk(Decimal(ln * rd - rn * ld, ld * rd), state)
      [] op.kind = "Asterisk" -> EvalOk(Decimal(ln * rn, ld * rd), state)
      [] op.kind = "ForwardSlash" ->
           IF rn # 0
           THEN EvalOk(Decimal(ln * rd, ld * rn), state)
           ELSE EvalOk(Payload("Decimal", ln, 0, ""), state)
      [] op.kind = "IsEquals" -> EvalOk(Boolean(ln * rd = rn * ld), state)
      [] OTHER -> EvalPanic("Unexpected operation", state)

\* do_self, the three pairings with a Decimal in them; an Integer operand is
\* ln/1 or rn/1 (the "as f64" casts)
do_self_decimals(ln, ld, rn, rd, op, state) ==
    CASE op.kind = "Plus" -> EvalOk(Decimal(ln * rd + rn * ld, ld * rd), state)
      [] op.kind = "Minus" -> EvalOk(Decimal(ln * rd - rn * ld, ld * rd), state)
      [] op.kind = "Asterisk" -> EvalOk(Decimal(ln * rn, ld * rd), state)
      [] op.kind = "ForwardSlash" ->
           IF rn # 0
           THEN EvalOk(Decimal(ln * rd, ld * rn), state)
           ELSE EvalPanic("Can't divide by zero", state)
      [] op.kind = "IsEquals" -> EvalOk(Boolean(ln * rd = rn * ld), state)
      [] OTHER -> EvalPanic("Unexpected operation", state)

do_self(lhs, rhs, op, state) ==
    IF lhs.kind \notin {"Decimal", "Integer"}
    THEN EvalPanic("Left value should be integer or float", state)
    ELSE IF rhs.kind \notin {"Decimal", "Integer"}
    THEN EvalPanic("Right value should be integer or float", state)
    ELSE IF lhs.kind = "Integer" /\ rhs.kind = "Integer"
    THEN do_self_integers(lhs.num, rhs.num, op, state)
    ELSE do_self_decimals(lhs.num, lhs.den, rhs.num, rhs.den, op, state)

get_var(name, state) ==
    IF name \notin DOMAIN state.variables
    THEN EvalPanic("No such variable", state)
    ELSE LET new_value == state.variables[name]
         IN  IF new_value.kind \in {"Decimal", "Integer", "Str", "Boolean"}
             THEN EvalOk(new_value, state)
             ELSE EvalOk(None, state)

do_number_node(lhs, rhs, op, state) ==
    IF lhs.kind = "Identifier"
    THEN LET l == get_var(lhs.str, state)
         IN  IF l.err # "" THEN l
             ELSE IF rhs.kind = "Identifier"
             THEN LET r == get_var(rhs.str, state)
                  IN  IF r.err # "" THEN r ELSE do_self(l.val, r.val, op, state)
             ELSE do_self(l.val, rhs, op, state)
    ELSE IF rhs.kind = "Identifier"
    THEN LET r == get_var(rhs.str, state)
         IN  IF r.err # "" THEN r ELSE do_self(lhs, r.val, op, state)
    ELSE do_self(lhs, rhs, op, state)

\* HashMap::insert
Insert(map, name, value) ==
    [n \in DOMAIN map \cup {name} |-> IF n = name THEN value ELSE map[n]]

\* a plausible slip: the assignment stores the value but yields None, as a statement would
do_assign_node_no_value(lhs, rhs, state) ==
    IF lhs.kind = "Identifier"
    THEN LET got == IF rhs.kind = "Identifier" THEN get_var(rhs.str, state)
                    ELSE IF rhs.kind \in {"Decimal", "Integer", "Str", "Boolean"}
                    THEN EvalOk(rhs, state)
                    ELSE EvalOk(None, state)
         IN  IF got.err # "" THEN got
             ELSE EvalOk(None,
                         [variables |-> Insert(state.variables, lhs.str, got.val),
                          assigned  |-> state.assigned \cup {lhs.str}])
    ELSE EvalPanic("Expected identifier on the left side", state)

do_assign_node(lhs, rhs, state) ==
    IF lhs.kind = "Identifier"
    THEN LET got == IF rhs.kind = "Identifier" THEN get_var(rhs.str, state)
                    ELSE IF rhs.kind \in {"Decimal", "Integer", "Str", "Boolean"}
                    THEN EvalOk(rhs, state)
                    ELSE EvalOk(None, state)
         IN  IF got.err # "" THEN got
             ELSE EvalOk(got.val,
                         [variables |-> Insert(state.variables, lhs.str, got.val),
                          assigned  |-> state.assigned \cup {lhs.str}])
    ELSE EvalPanic("Expected identifier on the left side", state)

visit_alone_node(node) ==
    CASE node.entry.kind = "Integer" -> Integer(node.entry.num)
      [] node.entry.kind = "Decimal" -> Decimal(node.entry.num, node.entry.den)
      [] node.entry.kind = "Identifier" -> Identifier(node.entry.str)
      [] node.entry.kind = "Boolean" -> Boolean(node.entry.num = 1)
      [] node.entry.kind = "QuotedString" -> Str(node.entry.str)
      [] OTHER -> None

RECURSIVE visit_node(_, _, _)
RECURSIVE visit_binop_node(_, _, _)
RECURSIVE visit_unaryop_node(_, _, _)

\* depth counts the frames of visit_node on the native stack; past MaxCallDepth
\* the process is killed by the stack guard
visit_node(node, state, depth) ==
    IF depth > MaxCallDepth THEN EvalPanic("stack overflow", state)
    ELSE IF Len(node.children) = 0 THEN EvalOk(visit_alone_node(node), state)
    ELSE IF node.entry.kind \in
              {"Plus", "Minus", "Asterisk", "ForwardSlash", "Assign", "IsEquals", "NotEquals"}
    THEN IF Len(node.children) = 1 THEN visit_unaryop_node(node, state, depth)
         ELSE IF Len(node.children) = 2 THEN visit_binop_node(node, state, depth)
         ELSE EvalPanic("Can't visit unexpected node!", state)
    ELSE EvalPanic("Unexpected node type", state)

\* a plausible slip: an Identifier on the left is looked up as soon as the left
\* child has been evaluated, before the right child runs
visit_binop_node_eager_lookup(node, state, depth) ==
    LET lhs == visit_node(node.children[1], state, depth + 1)
    IN  IF lhs.err # "" THEN lhs
        ELSE LET early == IF node.entry.kind # "Assign" /\ lhs.val.kind = "Identifier"
                          THEN get_var(lhs.val.str, lhs.state)
                          ELSE lhs
             IN  IF early.err # "" THEN early
                 ELSE LET rhs == visit_node(node.children[2], lhs.state, depth + 1)
                      IN  IF rhs.err # "" THEN rhs
                          ELSE IF node.entry.kind = "Assign"
                          THEN do_assign_node(lhs.val, rhs.val, rhs.state)
                          ELSE do_number_node(early.val, rhs.val, node.entry, rhs.state)

visit_binop_node(node, state, depth) ==
    LET lhs == visit_node(node.children[1], state, depth + 1)
    IN  IF lhs.err # "" THEN lhs
        ELSE LET rhs == visit_node(node.children[2], lhs.state, depth + 1)
             IN  IF rhs.err # "" THEN rhs
                 ELSE IF node.entry.kind = "Assign"
                 THEN do_assign_node(lhs.val, rhs.val, rhs.state)
                 ELSE do_number_node(lhs.val, rhs.val, node.entry, rhs.state)

visit_unaryop_node(node, state, depth) ==
    LET n == visit_node(node, state, depth + 1)
    IN  IF n.err # "" THEN n
        ELSE IF node.entry.kind = "Minus"
        THEN do_number_node(n.val, Integer(-1), TokenKind("Asterisk"), n.state)
        ELSE n

\* interpret once lex has returned tks
interpret_tokens(tks, main_state) ==
    LET p == parse_tokens(tks)
    IN  IF p.err # ""
        THEN [err |-> "AST(Abstract Syntax Tree) error", val |-> None, state |-> main_state,
              tree |-> NodeNew, evaluated |-> FALSE]
        ELSE LET seeded == [main_state EXCEPT
                               !.variables = Insert(main_state.variables, "NULL", Integer(0))]
                 v == visit_node(p.node, seeded, 0)
             IN  [err |-> v.err, val |-> v.val, state |-> v.state,
                  tree |-> p.node, evaluated |-> TRUE]

interpret(s, main_state) ==
    LET l == lex(s)
    IN  IF l.err # ""
        THEN [err |-> l.err, val |-> None, state |-> main_state,
              tree |-> NodeNew, evaluated |-> FALSE, lexed |-> FALSE, tokens |-> <<>>]
        ELSE interpret_tokens(l.tokens, main_state) @@ [lexed |-> TRUE, tokens |-> l.tokens]

(***************************************************************************)
(* Inputs.  A line is written as a sequence of words (each the text of     *)
(* one token) joined by single spaces.                                     *)
(***************************************************************************)
DigitChar ==
    [n \in 0..9 |-> CHOOSE c \in Digits : DigitValue[c] = n]

IntWord(n) ==
    <<DigitChar[n]>>

RECURSIVE Render(_)
Render(words) ==
    IF words = <<>> THEN <<>>
    ELSE IF Len(words) = 1 THEN words[1]
    ELSE words[1] \o <<" ">> \o Render(Tail(words))

SeqsUpTo(S, n) ==
    UNION {[1..k -> S] : k \in 0..n}

IntLiterals ==
    {<<IntWord(n)>> : n \in 0..MaxI64}

\* the forms an integer operand is written in: n, -n, and (-MaxI64 - 1) for MinI64
IntForms ==
    IntLiterals
    \cup {<<<<"-">>, IntWord(n)>> : n \in 0..MaxI64}
    \cup {<<<<"(">>, <<"-">>, IntWord(MaxI64), <<"-">>, IntWord(1), <<")">>>>}

Names ==
    {<<"a">>, <<"b">>, <<"N", "U", "L", "L">>}

OperandForms ==
    IntForms \cup {<<n>> : n \in Names}
    \cup {<<<<"1", ".", "5">>>>, <<<<"0", ".", "0">>>>, <<<<"-">>, <<"0", ".", "0">>>>,
          <<<<"\"", "s", "\"">>>>}

ZeroForms ==
    {<<IntWord(0)>>, <<<<"-">>, IntWord(0)>>, <<<<"0", ".", "0">>>>,
     <<<<"-">>, <<"0", ".", "0">>>>, <<<<"N", "U", "L", "L">>>>, <<<<"b">>>>}

TokenWords ==
    {<<"1">>, <<"a">>, <<"-">>, <<"/">>, <<"=">>, <<"(">>, <<")">>}

\* lines that leave something in the Environment for the lines after them
SetupLines ==
    { <<<<"a">>, <<"=">>, <<"1">>>>,
      <<<<"a">>, <<"=">>, <<"1", ".", "5">>>>,
      <<<<"a">>, <<"=">>, <<"\"", "s", "\"">>>>,
      <<<<"a">>, <<"=">>, <<"-">>, IntWord(MaxI64), <<"-">>, <<"1">>>>,
      <<<<"b">>, <<"=">>, <<"0">>>>,
      <<<<"b">>, <<"=">>, <<"0", ".", "0">>>>,
      <<<<"N", "U", "L", "L">>, <<"=">>, <<"5">>>> }

DivisionLines ==
    {x \o <<<<"/">>>> \o d : x \in IntForms, d \in IntForms}
    \cup {x \o <<<<"/">>>> \o d : x \in OperandForms, d \in ZeroForms}
    \cup {x \o <<<<"/">>>> \o d : x \in ZeroForms, d \in OperandForms}

ChainLines ==
    {x \o <<op>> \o y \o <<op>> \o z :
        x \in IntLiterals, y \in IntLiterals, z \in IntLiterals, op \in {<<"-">>, <<"+">>}}

AssignForms ==
    {<<IntWord(n)>> : n \in {0, 1, MaxI64}}
    \cup {<<<<"-">>, IntWord(n)>> : n \in {1, MaxI64}}

AssignLines ==
    {<<a, <<"=">>, b, <<"=">>>> \o v : a \in Names, b \in Names, v \in AssignForms}

MixedLines ==
    {<<<<"a">>, <<"+">>, <<"(">>, <<"a">>, <<"=">>, <<"5">>, <<")">>>>,
     <<<<"(">>, <<"a">>, <<"=">>, <<"1">>, <<")">>, <<"/">>, <<"0">>>>,
     <<<<"(">>, <<"a">>, <<"=">>, <<"1">>, <<")">>, <<"+">>, <<"b">>>>,
     <<<<"(">>, <<"b">>, <<"=">>, <<"2">>, <<")">>, <<"+">>, <<"\"", "s", "\"">>>>,
     <<<<"(">>, <<"b">>, <<"=">>, <<"2">>, <<")">>, <<"=">>, <<"1">>>>,
     <<<<"1">>, <<"=">>, <<"2">>>>,
     <<<<"a">>, <<"=">>, <<"b">>>>,
     <<<<"a">>, <<"+">>, <<"1">>>>,
     <<<<"a">>, <<"/">>, <<"b">>>>,
     <<<<"a">>, <<"/">>, <<"0">>>>,
     <<<<"a">>, <<"*">>, <<"a">>>>,
     <<<<"1">>, <<"+">>, <<"2", ".", "5">>>>,
     <<<<"-">>, <<"5">>, <<"*">>, <<"2">>>>,
     <<<<"a">>>>, <<<<"b">>>>, <<<<"N", "U", "L", "L">>>>, <<<<"1">>>>}

\* operands that read a name, write one, or do neither
OrderOperands ==
    {<<<<"a">>>>, <<<<"b">>>>, <<<<"2">>>>,
     <<<<"(">>, <<"a">>, <<"=">>, <<"3">>, <<")">>>>,
     <<<<"(">>, <<"a">>, <<"=">>, <<"2">>, <<")">>>>,
     <<<<"(">>, <<"b">>, <<"=">>, <<"3">>, <<")">>>>}

OrderLines ==
    {l \o <<op>> \o r : l \in OrderOperands, r \in OrderOperands,
        op \in {<<"+">>, <<"-">>, <<"*">>}}

MalformedLines ==
    {<<<<"(">>, <<"1">>, <<"+">>, <<"2">>>>,
     <<<<"(">>, <<"(">>, <<"1">>, <<")">>>>,
     <<<<"(">>, <<"a">>, <<"=">>, <<"1">>>>,
     <<<<"1">>, <<"+">>, <<"2">>, <<")">>>>,
     <<<<"1">>, <<"+">>, <<"2">>, <<"3">>>>,
     <<<<"a">>, <<"=">>, <<"1">>, <<"(">>>>,
     <<<<"a">>, <<"=">>, <<"1">>, <<"b">>, <<"=">>, <<"2">>>>,
     <<<<"t", "r", "u", "e">>>>,
     <<<<"i", "f">>, <<"1">>>>,
     <<<<"1">>, <<"=">>, <<"=">>, <<"1">>>>}

\* texts that are not words joined by spaces: a trailing newline (as read_line
\* leaves it), comments, an unterminated string, a literal past the i64 range
RawLines ==
    { <<"1", "\n">>, <<"a", "=", "1", "\n">>, <<"a", "\n">>, <<"\n">>,
      <<"1", "/", "/", "c", "\n">>, <<"1", "/", "/", "c">>,
      <<"1", "/", "*", "c", "*", "/", "+", "1">>, <<"\"", "s">>,
      <<"9", "9">>, <<"a", "=">>, <<"#">>, <<"_", "a">> }

\* the lines of a session
Lines ==
    {Render(w) : w \in SetupLines \cup AssignLines \cup MixedLines \cup MalformedLines}
    \cup RawLines

\* the lines a single call is run on
ExprLines ==
    {Render(w) : w \in SeqsUpTo(TokenWords, MaxTokens) \cup DivisionLines \cup ChainLines
                       \cup MixedLines \cup MalformedLines \cup OrderLines}

(***************************************************************************)
(* The session (main.rs): one State, one interpret call per line.  A       *)
(* panic unwinds out of main and ends the process.                         *)
(***************************************************************************)
NoResult ==
    [err |-> "", val |-> None, lexed |-> FALSE, evaluated |-> FALSE]

\* State::new
StateNew ==
    [n \in {} |-> None]

Init ==
    /\ variables = StateNew
    /\ overflow_checks \in BOOLEAN
    /\ pc = "ready"
    /\ calls = 0
    /\ src = <<>>
    /\ tokens = <<>>
    /\ tree = NodeNew
    /\ result = NoResult
    /\ prev = StateNew
    /\ assigned = {}

Interpret(line) ==
    /\ pc = "ready"
    /\ calls < MaxCalls
    /\ \E r \in {interpret(line, [variables |-> variables, assigned |-> {}])} :
           /\ src' = line
           /\ tokens' = r.tokens
           /\ tree' = r.tree
           /\ result' = [err |-> r.err, val |-> r.val, lexed |-> r.lexed,
                         evaluated |-> r.evaluated]
           /\ variables' = r.state.variables
           /\ assigned' = r.state.assigned
           /\ pc' = IF r.err # "" THEN "crashed" ELSE "ready"
    /\ prev' = variables
    /\ calls' = calls + 1
    /\ UNCHANGED overflow_checks

Next ==
    \E line \in Lines : Interpret(line)

Spec ==
    Init /\ [][Next]_vars

(***************************************************************************)
(* A session of two lines: a line that leaves something in the             *)
(* Environment (or nothing but NULL), then an expression line.             *)
(***************************************************************************)
StartLines ==
    { <<<<"1">>>>,
      <<<<"a">>, <<"=">>, <<"1">>>>,
      <<<<"a">>, <<"=">>, <<"1", ".", "5">>>>,
      <<<<"a">>, <<"=">>, <<"-">>, IntWord(MaxI64), <<"-">>, <<"1">>>> }

Evaluate(line) ==
    /\ calls <= 1
    /\ Interpret(line)

ExprNext ==
    \E line \in (IF calls = 0 THEN {Render(w) : w \in StartLines} ELSE ExprLines) :
        Evaluate(line)

ExprSpec ==
    Init /\ [][ExprNext]_vars

(***************************************************************************)
(* lex alone, on every text of at most MaxSrcLen characters.               *)
(***************************************************************************)
LexAlphabet ==
    {"1", "a", " ", "\n", "/", "*", "\"", "+"}

LexInit ==
    /\ src \in SeqsUpTo(LexAlphabet, MaxSrcLen)
    /\ variables = StateNew
    /\ overflow_checks = TRUE
    /\ pc = "ready"
    /\ calls = 0
    /\ tokens = <<>>
    /\ tree = NodeNew
    /\ result = NoResult
    /\ prev = StateNew
    /\ assigned = {}

Lex ==
    /\ pc = "ready"
    /\ \E l \in {lex(src)} :
           /\ tokens' = l.tokens
           /\ result' = [err |-> l.err, val |-> None, lexed |-> l.err = "", evaluated |-> FALSE]
           /\ pc' = IF l.err # "" THEN "crashed" ELSE "done"
    /\ UNCHANGED <<variables, overflow_checks, calls, src, tree, prev, assigned>>

LexSpec ==
    LexInit /\ [][Lex]_vars

(***************************************************************************)
(* visit_node alone, on every small tree, the shapes parse never builds    *)
(* included.                                                               *)
(***************************************************************************)
Operators ==
    {"Plus", "Minus", "Asterisk", "ForwardSlash", "Assign", "IsEquals", "NotEquals"}

LeafNodes ==
    {Node(TokInteger(n), <<>>) : n \in {MinI64, -1, 0, 1, 2, MaxI64}}
    \cup {Node(TokDecimal(3, 2), <<>>), Node(TokDecimal(0, 1), <<>>),
          Node(TokIdentifier("a"), <<>>), Node(TokIdentifier("b"), <<>>),
          Node(TokQuotedString("s"), <<>>), Node(TokBoolean(TRUE), <<>>)}

BinaryNodes ==
    {Node(TokenKind(op), <<l, r>>) : op \in Operators, l \in LeafNodes, r \in LeafNodes}

UnaryNodes ==
    {Node(TokenKind(op), <<c>>) : op \in Operators \cup {"Not"},
        c \in LeafNodes \cup {Node(TokenKind("Plus"), <<l, l>>) : l \in LeafNodes}}

TernaryNodes ==
    {Node(TokenKind("Plus"), <<l, l, l>>) : l \in LeafNodes}

\* Environments as interpret hands them to visit_node: NULL seeded, and what
\* "a = 1", "a = 1.5" or "b = 0" left
VisitEnvs ==
    { Insert(StateNew, "NULL", Integer(0)),
      Insert(Insert(StateNew, "NULL", Integer(0)), "a", Integer(1)),
      Insert(Insert(StateNew, "NULL", Integer(0)), "a", Decimal(3, 2)),
      Insert(Insert(StateNew, "NULL", Integer(0)), "b", Integer(0)) }

VisitInit ==
    /\ tree \in LeafNodes \cup BinaryNodes \cup UnaryNodes \cup TernaryNodes
    /\ variables \in VisitEnvs
    /\ overflow_checks \in BOOLEAN
    /\ pc = "ready"
    /\ calls = 0
    /\ src = <<>>
    /\ tokens = <<>>
    /\ result = NoResult
    /\ prev = variables
    /\ assigned = {}

Visit ==
    /\ pc = "ready"
    /\ \E r \in {visit_node(tree, [variables |-> variables, assigned |-> {}], 0)} :
           /\ result' = [err |-> r.err, val |-> r.val, lexed |-> FALSE, evaluated |-> TRUE]
           /\ variables' = r.state.variables
           /\ assigned' = r.state.assigned
           /\ pc' = IF r.err # "" THEN "crashed" ELSE "done"
    /\ UNCHANGED <<overflow_checks, calls, src, tokens, tree, prev>>

VisitSpec ==
    VisitInit /\ [][Visit]_vars

(***************************************************************************)
(* parse alone, on every line of at most MaxTokens words and on longer     *)
(* lines where unary operators sit inside an expression.                   *)
(***************************************************************************)
ParseWords ==
    {<<"1">>, <<"a">>, <<"+">>, <<"-">>, <<"*">>, <<"=">>, <<"(">>, <<")">>}

UnaryLines ==
    {<<<<"1">>, <<"*">>, <<"-">>, <<"a">>>>,
     <<<<"2">>, <<"*">>, <<"+">>, <<"1">>, <<"+">>, <<"3">>>>,
     <<<<"-">>, <<"1">>, <<"*">>, <<"2">>, <<"-">>, <<"3">>>>,
     <<<<"+">>, <<"1">>, <<"*">>, <<"2">>, <<"-">>, <<"3">>>>,
     <<<<"-">>, <<"(">>, <<"-">>, <<"1">>, <<")">>>>,
     <<<<"a">>, <<"=">>, <<"-">>, <<"+">>, <<"-">>, <<"1">>>>,
     <<<<"1">>, <<"-">>, <<"-">>, <<"1">>, <<"-">>, <<"1">>>>,
     <<<<"+">>, <<"a">>, <<"=">>, <<"1", ".", "5">>>>,
     <<<<"-">>, <<"\"", "s", "\"">>, <<"/">>, <<"2">>>>,
     <<<<"1">>, <<"/">>, <<"(">>, <<"+">>, <<"b">>, <<")">>>>,
     <<<<"-">>, <<"f", "a", "l", "s", "e">>>>,
     <<<<"1">>, <<"=", "=">>, <<"-">>, <<"1">>>>,
     <<<<"1">>, <<"<">>, <<"2">>>>,
     <<<<"-">>, <<"1">>, <<".">>, <<"5">>>>}

ParseLines ==
    {Render(w) : w \in SeqsUpTo(ParseWords, MaxTokens) \cup UnaryLines \cup MalformedLines}
    \cup RawLines

ParseInit ==
    /\ src \in ParseLines
    /\ variables = StateNew
    /\ overflow_checks = TRUE
    /\ pc = "ready"
    /\ calls = 0
    /\ tokens = <<>>
    /\ tree = NodeNew
    /\ result = NoResult
    /\ prev = StateNew
    /\ assigned = {}

Parse ==
    /\ pc = "ready"
    /\ \E l \in {lex(src)} : \E p \in {parse(src)} :
           /\ tokens' = l.tokens
           /\ tree' = p.node
           /\ result' = [err |-> p.err, val |-> None, lexed |-> l.err = "", evaluated |-> FALSE]
           /\ pc' = IF l.err # "" THEN "crashed" ELSE IF p.err # "" THEN "failed" ELSE "done"
    /\ UNCHANGED <<variables, overflow_checks, calls, src, prev, assigned>>

ParseSpec ==
    ParseInit /\ [][Parse]_vars

(***************************************************************************)
(* Properties.  They speak of the last call: src, tokens, tree and result  *)
(* are its input and outcome, prev the Environment it started from,        *)
(* variables the Environment it left.                                      *)
(***************************************************************************)
\* the Environment the evaluation of a call starts from
Seeded(env) ==
    Insert(env, "NULL", Integer(0))

IsLeaf(node, kind) ==
    Len(node.children) = 0 /\ node.entry.kind = kind

IsBinary(node, kind) ==
    Len(node.children) = 2 /\ node.entry.kind = kind

\* an integer written with literals and '-' alone, and the integer it denotes
RECURSIVE IsIntForm(_)
RECURSIVE MathValue(_)
IsIntForm(node) ==
    \/ IsLeaf(node, "Integer")
    \/ /\ IsBinary(node, "Minus")
       /\ IsIntForm(node.children[1])
       /\ IsIntForm(node.children[2])
       /\ InI64(MathValue(node.children[1]) - MathValue(node.children[2]))

MathValue(node) ==
    IF Len(node.children) = 0 THEN node.entry.num
    ELSE MathValue(node.children[1]) - MathValue(node.children[2])

\* the value an operand of the last call stands for: an integer form, a Decimal
\* literal or its negation, or a name bound in env; None for anything else
Operand(node, env) ==
    IF IsIntForm(node) THEN Integer(MathValue(node))
    ELSE IF IsLeaf(node, "Decimal") THEN Decimal(node.entry.num, node.entry.den)
    ELSE IF IsBinary(node, "Minus") /\ IsLeaf(node.children[1], "Integer")
            /\ node.children[1].entry.num = 0 /\ IsLeaf(node.children[2], "Decimal")
    THEN Decimal(-node.children[2].entry.num, node.children[2].entry.den)
    ELSE IF IsLeaf(node, "Identifier") /\ node.entry.str \in DOMAIN env
    THEN env[node.entry.str]
    ELSE None

Numeric(v) ==
    v.kind \in {"Integer", "Decimal"}

\* C1: interpreting the line that is just an identifier with no binding in the
\* Environment fails with an undefined-variable error and never completes normally.
C1_UnboundNameFails ==
    (calls > 0 /\ result.lexed /\ Len(tokens) = 1 /\ tokens[1].kind = "Identifier"
        /\ tokens[1].str \notin DOMAIN prev)
    => (result.err = "No such variable" /\ pc = "crashed")

\* C2: for Integer operands a and b with b # 0, a / b never fails: it is
\* Integer(a/b) exactly when b divides a, and a Decimal otherwise.
C2_IntegerDivisionNeverFails ==
    (result.evaluated /\ IsBinary(tree, "ForwardSlash"))
    => LET x == Operand(tree.children[1], Seeded(prev))
           d == Operand(tree.children[2], Seeded(prev))
       IN  (x.kind = "Integer" /\ d.kind = "Integer" /\ d.num # 0)
           => /\ result.err = ""
              /\ IF Abs(x.num) % Abs(d.num) = 0
                 THEN \E q \in MinI64 - 1 .. MaxI64 + 1 :
                          q * d.num = x.num /\ result.val = Integer(q)
                 ELSE result.val.kind = "Decimal"

\* C3: x / d with x numeric (a literal or the value of a variable) and d Integer 0
\* or Decimal 0.0 ends in the division-by-zero failure and produces no value.
C3_DivisionByZeroFails ==
    (result.evaluated /\ IsBinary(tree, "ForwardSlash"))
    => LET x == Operand(tree.children[1], Seeded(prev))
           d == Operand(tree.children[2], Seeded(prev))
       IN  (Numeric(x) /\ Numeric(d) /\ d.num = 0)
           => /\ result.err = "Can't divide by zero"
              /\ result.val = None
              /\ pc = "crashed"

C3_Witness ==
    /\ result.evaluated
    /\ IsBinary(tree, "ForwardSlash")
    /\ IsLeaf(tree.children[1], "Identifier")
    /\ Operand(tree.children[1], Seeded(prev)).kind = "Decimal"
    /\ Operand(tree.children[2], Seeded(prev)) = Decimal(0, 1)
    /\ result.err = "Can't divide by zero"

\* the tokens of "a = b = v", v an integer literal or '-' and an integer literal
IsChainedAssign(tks) ==
    /\ Len(tks) \in {5, 6}
    /\ tks[1].kind = "Identifier"
    /\ tks[2].kind = "Assign"
    /\ tks[3].kind = "Identifier"
    /\ tks[4].kind = "Assign"
    /\ tks[1].str # tks[3].str
    /\ tks[Len(tks)].kind = "Integer"
    /\ Len(tks) = 6 => tks[5].kind = "Minus"

ChainedValue(tks) ==
    IF Len(tks) = 6 THEN -tks[6].num ELSE tks[5].num

ChainedValueNode(tks) ==
    IF Len(tks) = 6
    THEN Node(TokenKind("Minus"), <<Node(TokInteger(0), <<>>), Node(tks[6], <<>>)>>)
    ELSE Node(tks[5], <<>>)

\* C4: "a = b = v" parses as a = (b = v), leaves a and b bound to Integer(v),
\* and the value of the whole expression is Integer(v).
C4_AssignmentChains ==
    (calls > 0 /\ result.lexed /\ IsChainedAssign(tokens))
    => /\ tree = Node(TokenKind("Assign"),
                      <<Node(tokens[1], <<>>),
                        Node(TokenKind("Assign"),
                             <<Node(tokens[3], <<>>), ChainedValueNode(tokens)>>)>>)
       /\ result.err = ""
       /\ result.val = Integer(ChainedValue(tokens))
       /\ {tokens[1].str, tokens[3].str} \subseteq DOMAIN variables
       /\ variables[tokens[1].str] = Integer(ChainedValue(tokens))
       /\ variables[tokens[3].str] = Integer(ChainedValue(tokens))

C4_Witness ==
    /\ calls > 0
    /\ result.lexed
    /\ IsChainedAssign(tokens)
    /\ ChainedValue(tokens) = -MaxI64
    /\ tokens[1].str = "b"
    /\ "b" \in DOMAIN prev
    /\ variables["b"] = Integer(-MaxI64)
    /\ variables["a"] = Integer(-MaxI64)

\* the tokens of "x op y op z", op one of '-' and '+', x y z integer literals
IsChain(tks) ==
    /\ Len(tks) = 5
    /\ tks[1].kind = "Integer" /\ tks[3].kind = "Integer" /\ tks[5].kind = "Integer"
    /\ tks[2].kind \in {"Minus", "Plus"}
    /\ tks[4].kind = tks[2].kind

ChainResult(tks) ==
    IF tks[2].kind = "Minus"
    THEN tks[1].num - (tks[3].num - tks[5].num)
    ELSE tks[1].num + (tks[3].num + tks[5].num)

\* C5: "x - y - z" (and "x + y + z") parses to op(x, op(y, z)) and evaluates to
\* Integer(x - (y - z)) (Integer(x + (y + z))), for all integers x, y, z.
C5_ChainsGroupRight ==
    (calls > 0 /\ result.lexed /\ IsChain(tokens))
    => /\ tree = Node(TokenKind(tokens[2].kind),
                      <<Node(tokens[1], <<>>),
                        Node(TokenKind(tokens[2].kind),
                             <<Node(tokens[3], <<>>), Node(tokens[5], <<>>)>>)>>)
       /\ result.err = ""
       /\ result.val = Integer(ChainResult(tokens))

\* C6: when the tokens E of the last call parse as a complete expression,
\* interpreting ( E ) from the same Environment gives the same value or failure
\* and leaves the same Environment.
C6_ParenRoundTrip ==
    (calls > 0 /\ result.evaluated)
    => LET r == interpret_tokens(<<TokenKind("Lparen")>> \o tokens \o <<TokenKind("Rparen")>>,
                                 [variables |-> prev, assigned |-> {}])
       IN  /\ r.evaluated
           /\ r.err = result.err
           /\ r.val = result.val
           /\ r.state.variables = variables

C6_Witness ==
    /\ calls > 0
    /\ result.evaluated
    /\ result.err = ""
    /\ assigned # {}
    /\ Len(tokens) >= 3
    /\ interpret_tokens(<<TokenKind("Lparen")>> \o tokens \o <<TokenKind("Rparen")>>,
                        [variables |-> prev, assigned |-> {}]).state.variables = variables

\* the number of '(' left open at the end of tks
RECURSIVE OpenParens(_, _)
OpenParens(tks, open) ==
    IF tks = <<>> THEN open
    ELSE IF Head(tks).kind = "Lparen" THEN OpenParens(Tail(tks), open + 1)
    ELSE IF Head(tks).kind = "Rparen" /\ open > 0 THEN OpenParens(Tail(tks), open - 1)
    ELSE OpenParens(Tail(tks), open)

\* one complete expression, and tokens after it
HasLeftover(tks) ==
    parse_expr(tks, 0).err = "" /\ parse_expr(tks, 0).pos < Len(tks)

\* C7: tokens with a '(' that has no matching ')' or with tokens left over after
\* one complete expression make parse fail: no tree is returned and nothing is
\* evaluated.
C7_MalformedRejected ==
    (calls > 0 /\ result.lexed /\ (OpenParens(tokens, 0) > 0 \/ HasLeftover(tokens)))
    => /\ result.err = "AST(Abstract Syntax Tree) error"
       /\ ~result.evaluated
       /\ tree = NodeNew
       /\ variables = prev
       /\ assigned = {}
       /\ pc = "crashed"

C7_Witness ==
    /\ calls > 0
    /\ result.lexed
    /\ Len(tokens) = 4
    /\ OpenParens(tokens, 0) = 1
    /\ ~HasLeftover(tokens)
    /\ tokens[4].kind = "Integer"
    /\ result.err = "AST(Abstract Syntax Tree) error"

\* C8: a call creates or overwrites only the bindings of the names whose
\* assignment it executed, and removes none: every other name has the same
\* binding (or the same absence of one) after the call as before it.
C8_OnlyAssignmentsBind ==
    calls > 0
    => \A n \in (DOMAIN prev \cup DOMAIN variables) \ assigned :
           /\ n \in DOMAIN prev
           /\ n \in DOMAIN variables
           /\ variables[n] = prev[n]

Count(s, S) ==
    Cardinality({i \in 1..Len(s) : s[i] \in S})

\* C9: a newline of the text outside a comment and outside a string comes back
\* from lex as a NewLine token (here: the text has no '/' and no '"' at all, so
\* every newline of it is outside both).
C9_NewlinePreserved ==
    (pc = "done" /\ result.lexed /\ Count(src, {"/", "\""}) = 0)
    => Count(src, {"\n"}) = Cardinality({i \in 1..Len(tokens) : tokens[i].kind = "NewLine"})

\* C10: evaluating a node with one child terminates; tagged Minus it yields the
\* child's value times Integer(-1) under the binary rule, tagged with any other
\* operator the child's value unchanged.
C10_UnaryEvaluates ==
    (pc # "ready" /\ Len(tree.children) = 1 /\ tree.entry.kind \in Operators)
    => LET st == [variables |-> prev, assigned |-> {}]
           c  == visit_node(tree.children[1], st, 1)
           e  == IF c.err # "" \/ tree.entry.kind # "Minus" THEN c
                 ELSE do_number_node(c.val, Integer(-1), TokenKind("Asterisk"), c.state)
       IN  /\ result.err # "stack overflow"
           /\ result.err = e.err
           /\ result.val = e.val

\* the failures of evaluation the propagation policy names
EvaluationFailures ==
    {"Left value should be integer or float", "Right value should be integer or float",
     "Can't divide by zero", "No such variable", "Expected identifier on the left side"}

\* C11: a call that fails during evaluation (type mismatch, division by zero,
\* undefined variable, non-identifier assignment target) leaves the Environment's
\* bindings as they were before the call, even when an assignment of the line
\* was evaluated before the failing sub-expression.  Stated for every name but
\* the reserved NULL, which interpret itself writes before evaluating.
C11_FailureLeavesNoPartialResult ==
    (calls > 0 /\ result.evaluated /\ result.err \in EvaluationFailures)
    => \A n \in (DOMAIN prev \cup DOMAIN variables) \ {"NULL"} :
           /\ n \in DOMAIN prev
           /\ n \in DOMAIN variables
           /\ variables[n] = prev[n]

\* every node has no child and a literal or identifier tag, or two children and
\* the tag of a binary operator
RECURSIVE WellShaped(_)
WellShaped(node) ==
    \/ /\ Len(node.children) = 0
       /\ node.entry.kind \in {"Integer", "Decimal", "QuotedString", "Identifier"}
    \/ /\ Len(node.children) = 2
       /\ node.entry.kind \in {"Plus", "Minus", "Asterisk", "ForwardSlash", "Assign"}
       /\ node.entry = TokenKind(node.entry.kind)
       /\ WellShaped(node.children[1])
       /\ WellShaped(node.children[2])

\* the entries of a well-shaped tree, left to right
RECURSIVE InOrder(_)
InOrder(node) ==
    IF Len(node.children) = 0 THEN <<node.entry>>
    ELSE InOrder(node.children[1]) \o <<node.entry>> \o InOrder(node.children[2])

\* the positions of tks where a '+' or '-' is unary: at the start, after '(' or
\* after an operator
UnaryAt(tks) ==
    {i \in 1..Len(tks) :
        /\ tks[i].kind \in {"Plus", "Minus"}
        /\ \/ i = 1
           \/ tks[i - 1].kind \in {"Plus", "Minus", "Asterisk", "ForwardSlash", "Assign", "Lparen"}}

\* tks without its parentheses and with Integer(0) put before each unary operator
RECURSIVE Desugar(_, _)
Desugar(tks, i) ==
    IF i > Len(tks) THEN <<>>
    ELSE IF tks[i].kind \in {"Lparen", "Rparen"} THEN Desugar(tks, i + 1)
    ELSE IF i \in UnaryAt(tks) THEN <<TokInteger(0), tks[i]>> \o Desugar(tks, i + 1)
    ELSE <<tks[i]>> \o Desugar(tks, i + 1)

\* the number of '+' and '-' nodes whose left child is the literal Integer(0)
RECURSIVE ZeroLeft(_)
ZeroLeft(node) ==
    IF Len(node.children) = 0 THEN 0
    ELSE ZeroLeft(node.children[1]) + ZeroLeft(node.children[2])
         + (IF node.entry.kind \in {"Plus", "Minus"}
               /\ node.children[1] = Node(TokInteger(0), <<>>) THEN 1 ELSE 0)

\* C12: every node of a tree returned by parse has no child (tagged Integer,
\* Decimal, QuotedString or Identifier) or exactly two (tagged Plus, Minus,
\* Asterisk, ForwardSlash or Assign), never one; each unary '+' or '-' of the
\* input is a two-child node whose left child is the literal Integer(0) (the
\* input here writes no 0 of its own, so every such node comes from a unary
\* operator).
C12_TreeShape ==
    (pc = "done" /\ \A i \in 1..Len(tokens) : tokens[i] # TokInteger(0))
    => /\ WellShaped(tree)
       /\ InOrder(tree) = Desugar(tokens, 1)
       /\ ZeroLeft(tree) = Cardinality(UnaryAt(tokens))

C12_Witness ==
    /\ pc = "done"
    /\ Len(tokens) = 6
    /\ tokens[2].kind = "Asterisk"
    /\ tokens[3].kind = "Plus"
    /\ tree.entry.kind = "Asterisk"
    /\ tree.children[2].entry.kind = "Plus"
    /\ tree.children[2].children[1] = Node(TokInteger(0), <<>>)
    /\ tree.children[2].children[2].entry.kind = "Plus"
    /\ ZeroLeft(tree) = 1

\* an operand that is a name, an integer literal, or ( name = integer literal )
IsSimpleOperand(node) ==
    \/ IsLeaf(node, "Identifier")
    \/ IsLeaf(node, "Integer")
    \/ /\ IsBinary(node, "Assign")
       /\ IsLeaf(node.children[1], "Identifier")
       /\ IsLeaf(node.children[2], "Integer")

\* the Environment once a simple operand has been evaluated in env
After(node, env) ==
    IF IsBinary(node, "Assign")
    THEN Insert(env, node.children[1].entry.str, Integer(node.children[2].entry.num))
    ELSE env

\* the names a simple operand makes the operator look up
Reads(node) ==
    IF IsLeaf(node, "Identifier") THEN {node.entry.str} ELSE {}

\* what a simple operand contributes to the operator, names read in env
Contributes(node, env) ==
    IF IsLeaf(node, "Identifier") THEN env[node.entry.str]
    ELSE IF IsLeaf(node, "Integer") THEN Integer(node.entry.num)
    ELSE Integer(node.children[2].entry.num)

Combine(kind, x, y) ==
    CASE kind = "Plus" -> x + y
      [] kind = "Minus" -> x - y
      [] kind = "Asterisk" -> x * y

\* C13: in a binary arithmetic node the left child is evaluated before the right
\* child, and an Identifier operand is looked up only after both children have
\* been evaluated, so the lookup sees every assignment either child performed
\* (with a bound to 1, "a + ( a = 3 )" reads a as 3).
C13_LookupAfterBothChildren ==
    (calls > 0 /\ result.evaluated
        /\ Len(tree.children) = 2 /\ tree.entry.kind \in {"Plus", "Minus", "Asterisk"}
        /\ IsSimpleOperand(tree.children[1]) /\ IsSimpleOperand(tree.children[2]))
    => LET l    == tree.children[1]
           r    == tree.children[2]
           env2 == After(r, After(l, Seeded(prev)))
       IN  /\ variables = env2
           /\ IF ~((Reads(l) \cup Reads(r)) \subseteq DOMAIN env2)
              THEN result.err = "No such variable"
              ELSE LET x == Contributes(l, env2)
                       y == Contributes(r, env2)
                   IN  (x.kind = "Integer" /\ y.kind = "Integer"
                           /\ InI64(Combine(tree.entry.kind, x.num, y.num)))
                       => /\ result.err = ""
                          /\ result.val = Integer(Combine(tree.entry.kind, x.num, y.num))

C13_Witness ==
    /\ calls > 0
    /\ result.evaluated
    /\ IsBinary(tree, "Plus")
    /\ IsLeaf(tree.children[1], "Identifier")
    /\ IsBinary(tree.children[2], "Assign")
    /\ tree.children[1].entry.str = "a"
    /\ tree.children[2].children[1].entry.str = "a"
    /\ tree.children[2].children[2].entry.num = 3
    /\ "a" \in DOMAIN prev
    /\ prev["a"] = Integer(1)
    /\ variables["a"] = Integer(3)
    /\ result.val = Integer(6)
====
